---------------------------- MODULE Spec2Model ----------------------------
(***************************************************************************)
(* A model of the 40Ar/39Ar calculation functions of ararpy                *)
(* (src/ararpy/arar.py, src/constants.py).                                 *)
(*                                                                         *)
(* Numbers.  Python floats are modelled by exact rationals <<num, den>>    *)
(* (den > 0, lowest terms).  An uncertain quantity (uncertainties.ufloat)  *)
(* is a nominal value together with its first-order derivatives with       *)
(* respect to the independent variables of the call, which is how the      *)
(* uncertainties package propagates errors; a standard deviation is read   *)
(* from the derivatives and the variables' current std_dev.                *)
(* exp and log are modelled on the grid where they are exactly computable: *)
(* decay constants are given in units of ln 2, so exp(t * lambda) is the   *)
(* rational 2^(t * lambda/ln2) and log(2^k) is k ln 2.                      *)
(***************************************************************************)
EXTENDS Integers, Sequences, FiniteSets, TLC

\* args: the inputs of the scenario, drawn at construction
\* interferences: the caller's production-ratio mapping, shared by its calls
\* ret: what the last call returned or raised
VARIABLES args, interferences, ret

vars == <<args, interferences, ret>>

---------------------------------------------------------------------------
(* Bounds of the model *)

\* isotope signals range over -1 .. MaxSig
MaxSig == 2

---------------------------------------------------------------------------
(* Exact rational arithmetic (Python float arithmetic without rounding) *)

Abs(i) == IF i < 0 THEN -i ELSE i

RECURSIVE GCD(_, _)
GCD(a, b) == IF b = 0 THEN a ELSE GCD(b, a % b)

RNorm(n, d) ==
    LET g == GCD(Abs(n), Abs(d))
        s == IF d < 0 THEN -1 ELSE 1
    IN  IF n = 0 THEN <<0, 1>> ELSE <<(s * n) \div g, (s * d) \div g>>

R(i) == <<i, 1>>
RNeg(x) == <<-x[1], x[2]>>
RAbs(x) == <<Abs(x[1]), x[2]>>
RAdd(x, y) ==
    IF x[1] = 0 THEN y
    ELSE IF y[1] = 0 THEN x
    ELSE IF x[2] = 1 /\ y[2] = 1 THEN <<x[1] + y[1], 1>>
    ELSE LET g == GCD(x[2], y[2])
         IN  RNorm(x[1] * (y[2] \div g) + y[1] * (x[2] \div g), (x[2] \div g) * y[2])
RSub(x, y) == RAdd(x, RNeg(y))
RMul(x, y) ==
    IF x[1] = 0 \/ y[1] = 0 THEN <<0, 1>>
    ELSE IF x[2] = 1 /\ y[2] = 1 THEN <<x[1] * y[1], 1>>
    ELSE LET g1 == GCD(Abs(x[1]), y[2])
             g2 == GCD(Abs(y[1]), x[2])
         IN  <<(x[1] \div g1) * (y[1] \div g2), (x[2] \div g2) * (y[2] \div g1)>>
\* only used where y is non-zero: a zero divisor is ZeroDivisionError at the call site
RDiv(x, y) == RMul(x, IF y[1] < 0 THEN <<-y[2], -y[1]>> ELSE <<y[2], y[1]>>)
RIsZero(x) == x[1] = 0
RLt(x, y) == x[1] * y[2] < y[1] * x[2]
RLe(x, y) == x[1] * y[2] <= y[1] * x[2]
RSq(x) == RMul(x, x)

---------------------------------------------------------------------------
(* Uncertain quantities: uncertainties.ufloat as used by arar.py *)

IsoVars == {"a40", "a39", "a38", "a37", "a36"}
PRKeys == {"ca3637", "ca3937", "ca3837", "k3739", "k3839", "k4039", "cl3638"}
\* the two seeds ufloat(0, 1e-20) of the fixed-point loops
EpsVars == {"k37_0", "atm36_0"}
UVars == IsoVars \cup PRKeys \cup EpsVars
UVarSeq == <<"a40", "a39", "a38", "a37", "a36",
             "ca3637", "ca3937", "ca3837", "k3739", "k3839", "k4039", "cl3638",
             "k37_0", "atm36_0">>

\* position of a variable in a derivative vector
VarIdx(v) == CHOOSE i \in 1 .. Len(UVarSeq) : UVarSeq[i] = v

\* the derivative vector whose i-th entry is Op(i)
Vec(Op(_)) == <<Op(1), Op(2), Op(3), Op(4), Op(5), Op(6), Op(7),
                Op(8), Op(9), Op(10), Op(11), Op(12), Op(13), Op(14)>>

\* a plain Python number: no dependence on any variable
UConst(r) == [n |-> r, d |-> Vec(LAMBDA i : R(0))]
\* ufloat(nominal, std): an independent variable
UVar(r, v) == [n |-> r, d |-> Vec(LAMBDA i : IF UVarSeq[i] = v THEN R(1) ELSE R(0))]

UAdd(x, y) == [n |-> RAdd(x.n, y.n), d |-> Vec(LAMBDA i : RAdd(x.d[i], y.d[i]))]
USub(x, y) == [n |-> RSub(x.n, y.n), d |-> Vec(LAMBDA i : RSub(x.d[i], y.d[i]))]
UMul(x, y) == [n |-> RMul(x.n, y.n),
               d |-> Vec(LAMBDA i : RAdd(RMul(y.n, x.d[i]), RMul(x.n, y.d[i])))]
\* x / y for y.n # 0 (the caller raises ZeroDivisionError otherwise)
UDiv(x, y) == [n |-> RDiv(x.n, y.n),
               d |-> Vec(LAMBDA i : RSub(RDiv(x.d[i], y.n),
                                         RDiv(RMul(x.n, y.d[i]), RSq(y.n))))]
\* F(e), with e computed once and then named: `LET x == e IN F(x)`
Bind(e, F(_)) == CHOOSE r \in { F(x) : x \in {e} } : TRUE

\* x > y on uncertain quantities compares nominal values
UGt(x, y) == RLt(y.n, x.n)

\* error_components(): per variable, |derivative| * std_dev.  std_dev is the
\* root of the sum of their squares: it is 0 exactly when every component is 0.
\* The components of the two loop seeds are in units of their std_dev, 1e-20.
ErrorComponents(u, sig) == Vec(LAMBDA i : RMul(RAbs(u.d[i]), sig[UVarSeq[i]]))

\* (nominal_value, error components) as a caller reads them
Reading(u, sig) == [n |-> u.n, err |-> ErrorComponents(u, sig)]

NoError == Vec(LAMBDA i : R(0))
\* std_dev >= 0: no component of the root sum of squares is negative
StdNonNeg(x) == \A i \in 1 .. Len(UVarSeq) : RLe(R(0), x.err[i])
StdZero(x) == x.err = NoError

---------------------------------------------------------------------------
(* The constants set: an injected object, or ArArConstants() of constants.py *)

\* attributes a default-constructed ArArConstants can be read for: atm3836 reads
\* the undefined self.atm4038, lambda_k reads self.self, and k3739_mode,
\* fixed_k3739, allow_negative_ca_correction, age_scalar are not defined
DefaultReadable == {"atm4036", "lambda_Cl36", "lambda_Ar37", "lambda_Ar39",
                    "lambda_e", "lambda_b"}

\* reading attribute a of constants set c succeeds (no AttributeError)
HasAttr(c, a) == c.kind = "supplied" \/ a \in DefaultReadable

\* str.lower() on the mode strings of the model
Lower(s) == CASE s = "Normal" -> "normal"
              [] s = "NORMAL" -> "normal"
              [] s = "Fixed" -> "fixed"
              [] OTHER -> s

---------------------------------------------------------------------------
(* Production ratios: a mapping key -> ufloat object *)

EmptyMap == [k \in {} |-> 0]

\* CopyRatio as it would be if the mapping's objects were used without copying
CopyRatioAlias(v) == [n |-> v.n, s |-> v.s, shared |-> TRUE]

\* v.__copy__(): a new object with the same nominal value and std_dev
CopyRatio(v) == [n |-> v.n, s |-> v.s, shared |-> FALSE]

\* pr = dict((k, v.__copy__()) for k, v in interferences.iteritems())
CopyInterferences(m) == [k \in DOMAIN m |-> CopyRatio(m[k])]

\* a mapping passed through as it is (interference_corrections called directly)
SameObjects(m) == [k \in DOMAIN m |-> [n |-> m[k].n, s |-> m[k].s, shared |-> TRUE]]

\* pr.get(key, default)
PrGet(pr, key, default) ==
    IF key \in DOMAIN pr THEN UVar(R(pr[key].n), key) ELSE UConst(R(default))

\* for pp in pr.itervalues(): pp.std_dev = 0
ClearErrors(pr) == [k \in DOMAIN pr |-> [pr[k] EXCEPT !.s = 0]]

\* the caller's mapping after the callee has written to the objects of pr
CallerView(m, pr) ==
    [k \in DOMAIN m |-> IF k \in DOMAIN pr /\ pr[k].shared
                        THEN [n |-> pr[k].n, s |-> pr[k].s]
                        ELSE m[k]]

\* std_dev of every variable of a call
SigOf(iso, pr) ==
    [v \in UVars |->
        IF v \in IsoVars THEN R(iso[v].s)
        ELSE IF v \in DOMAIN pr THEN R(pr[v].s)
        ELSE R(1)]

IsoU(iso, v) == UVar(R(iso[v].n), v)

---------------------------------------------------------------------------
(* interference_corrections *)

\* range(5) of both fixed-point loops
Iterations == 5

\* the optional fixed_k3739 argument: False, or a number
FixedFalse == [isFalse |-> TRUE, v |-> R(0)]
FixedNum(r) == [isFalse |-> FALSE, v |-> r]
\* Python truth of the argument: False and 0 are false
Truthy(f) == ~f.isFalse /\ ~RIsZero(f.v)

\* StepK3739 as it would be if k39 subtracted ca37 in place of ca39
StepK3739WrongTerm(a37, a39, c, k, st) ==
    Bind(USub(a37, st.k37), LAMBDA ca37 :
    Bind(UMul(c, ca37), LAMBDA ca39 :
    Bind(USub(a39, ca37), LAMBDA k39 :
    Bind(UMul(k, k39), LAMBDA k37 :
        [raised |-> "none", ca37 |-> ca37, ca39 |-> ca39, k37 |-> k37, k39 |-> k39]))))

\* one pass of the body of `for _ in range(5)`: c is pr.get('ca3937', 0), k is
\* pr.get('k3739', 0), st holds k37 of the pass before
StepK3739(a37, a39, c, k, st) ==
    Bind(USub(a37, st.k37), LAMBDA ca37 :
    Bind(UMul(c, ca37), LAMBDA ca39 :
    Bind(USub(a39, ca39), LAMBDA k39 :
    Bind(UMul(k, k39), LAMBDA k37 :
        [raised |-> "none", ca37 |-> ca37, ca39 |-> ca39, k37 |-> k37, k39 |-> k39]))))

RECURSIVE IterateK3739(_, _, _, _, _, _)
\* the loop body run i more times from st
IterateK3739(i, a37, a39, c, k, st) ==
    IF i = 0 THEN st
    ELSE Bind(StepK3739(a37, a39, c, k, st), LAMBDA next :
              IterateK3739(i - 1, a37, a39, c, k, next))

\* the values of apply_fixed_k3739 once its two divisors are known to be non-zero
FixedSolution(a39, c0, xu, y, den) ==
    Bind(UDiv(UMul(UMul(a39, xu), y), den), LAMBDA ca37 :
    Bind(UMul(c0, ca37), LAMBDA ca39 :
    Bind(USub(a39, ca39), LAMBDA k39 :
    Bind(UMul(xu, k39), LAMBDA k37 :
        [raised |-> "none", ca37 |-> ca37, ca39 |-> ca39, k37 |-> k37, k39 |-> k39]))))

\* apply_fixed_k3739(a39, pr, fixed_k3739), x a plain number
ApplyFixedK3739(a39, pr, x) ==
    Bind(PrGet(pr, "ca3937", 1), LAMBDA c1 :
        IF RIsZero(c1.n) THEN [raised |-> "ZeroDivisionError"]
        ELSE Bind(UDiv(UConst(R(1)), c1), LAMBDA y :
             Bind(UConst(x), LAMBDA xu :
             Bind(UAdd(xu, y), LAMBDA den :
                 IF RIsZero(den.n) THEN [raised |-> "ZeroDivisionError"]
                 ELSE Bind(PrGet(pr, "ca3937", 0), LAMBDA c0 :
                           FixedSolution(a39, c0, xu, y, den))))))

\* the mode test of interference_corrections
UseIterative(c, fixed) == Lower(c.k3739_mode) = "normal" /\ ~Truthy(fixed)

\* the ratio the fixed branch passes to apply_fixed_k3739
FixedRatio(c, fixed) == IF ~Truthy(fixed) THEN c.fixed_k3739 ELSE fixed.v

\* ClampCa37 as it would be if the clamp were left out
ClampCa37Missing(c, ca37) == ca37

\* max(ufloat(0, 0), ca37) unless negative corrections are allowed
ClampCa37(c, ca37) ==
    IF ~c.allow_negative_ca_correction
    THEN (IF UGt(ca37, UConst(R(0))) THEN ca37 ELSE UConst(R(0)))
    ELSE ca37

\* the iterative branch
SolveIterative(iso, pr) ==
    Bind(IsoU(iso, "a37"), LAMBDA a37 :
    Bind(IsoU(iso, "a39"), LAMBDA a39 :
    Bind(PrGet(pr, "ca3937", 0), LAMBDA c :
    Bind(PrGet(pr, "k3739", 0), LAMBDA k :
    Bind([k37 |-> UVar(R(0), "k37_0")], LAMBDA seed :
        IterateK3739(Iterations, a37, a39, c, k, seed))))))

\* what follows the two branches: k38, the clamp, ca36 and ca38
FinishCorrections(pr, c, mode, s) ==
    Bind(UMul(PrGet(pr, "k3839", 0), s.k39), LAMBDA k38 :
    Bind(ClampCa37(c, s.ca37), LAMBDA ca37 :
    Bind(UMul(PrGet(pr, "ca3637", 0), ca37), LAMBDA ca36 :
    Bind(UMul(PrGet(pr, "ca3837", 0), ca37), LAMBDA ca38 :
        [raised |-> "none", mode |-> mode, raw_ca37 |-> s.ca37,
         k37 |-> s.k37, k38 |-> k38, k39 |-> s.k39,
         ca36 |-> ca36, ca37 |-> ca37, ca38 |-> ca38, ca39 |-> s.ca39]))))

InterferenceCorrections(iso, pr, c, fixed) ==
    IF ~HasAttr(c, "k3739_mode") THEN [raised |-> "AttributeError"]
    ELSE IF UseIterative(c, fixed)
    THEN Bind(SolveIterative(iso, pr), LAMBDA s : FinishCorrections(pr, c, "iterative", s))
    ELSE Bind(ApplyFixedK3739(IsoU(iso, "a39"), pr, FixedRatio(c, fixed)), LAMBDA s :
              IF s.raised # "none" THEN [raised |-> s.raised]
              ELSE FinishCorrections(pr, c, "fixed", s))

---------------------------------------------------------------------------
(* calculate_atmospheric *)

\* one pass of the body of `for _ in range(5)`
StepAtm36(a38, a36, k38, ca38, ca36, m, atm3836, st) ==
    Bind(UMul(atm3836, st.atm36), LAMBDA ar38atm :
    Bind(USub(a38, ar38atm), LAMBDA t1 :
    Bind(USub(t1, k38), LAMBDA t2 :
    Bind(USub(t2, ca38), LAMBDA cl38 :
    Bind(UMul(cl38, m), LAMBDA cl36 :
    Bind(USub(a36, ca36), LAMBDA t3 :
    Bind(USub(t3, cl36), LAMBDA atm36 :
        [raised |-> "none", atm36 |-> atm36, cl36 |-> cl36])))))))

RECURSIVE IterateAtm36(_, _, _, _, _, _, _, _, _)
\* the loop body run i more times from st
IterateAtm36(i, a38, a36, k38, ca38, ca36, m, atm3836, st) ==
    IF i = 0 THEN st
    ELSE Bind(StepAtm36(a38, a36, k38, ca38, ca36, m, atm3836, st), LAMBDA next :
              IterateAtm36(i - 1, a38, a36, k38, ca38, ca36, m, atm3836, next))

\* m = pr.get('cl3638', 0) * lambda_Cl36.nominal_value * decay_time
ChlorineFactor(pr, c, decay_time) ==
    Bind(PrGet(pr, "cl3638", 0), LAMBDA cl3638 :
    Bind(UMul(cl3638, UConst(c.lambda_Cl36)), LAMBDA t :
        UMul(t, UConst(R(decay_time)))))

CalculateAtmospheric(a38, a36, k38, ca38, ca36, decay_time, pr, c) ==
    IF ~HasAttr(c, "lambda_Cl36") \/ ~HasAttr(c, "atm3836")
    THEN [raised |-> "AttributeError"]
    ELSE Bind(ChlorineFactor(pr, c, decay_time), LAMBDA m :
         Bind(UConst(c.atm3836), LAMBDA atm3836 :
         Bind([atm36 |-> UVar(R(0), "atm36_0")], LAMBDA seed :
             IterateAtm36(Iterations, a38, a36, k38, ca38, ca36, m, atm3836, seed))))

---------------------------------------------------------------------------
(* calculate_F *)

\* FRatio as it would be if the fallback were ufloat(0, 0), as for rad40_percent
FRatioZeroFallback(rad40, k39) ==
    IF RIsZero(k39.n) THEN UConst(R(0)) ELSE UDiv(rad40, k39)

\* f = rad40 / k39, or ufloat(1.0, 0) on ZeroDivisionError
FRatio(rad40, k39) == IF RIsZero(k39.n) THEN UConst(R(1)) ELSE UDiv(rad40, k39)

\* rp = rad40 / a40 * 100, or ufloat(0, 0) on ZeroDivisionError
Rad40Percent(rad40, a40) ==
    IF RIsZero(a40.n) THEN UConst(R(0))
    ELSE Bind(UDiv(rad40, a40), LAMBDA q : UMul(q, UConst(R(100))))

\* the five returned structures.  rf = deepcopy(f) is taken before the errors of
\* the ratios are cleared (sig0); everything else is read by the caller after
\* `pp.std_dev = 0` has run over the local copies (sig1).
FResults(iso, pr, ic, atm, a40, atm40, k40, rad40, f, rp, sig0, cleared, sig1) ==
    [raised |-> "none", pr |-> cleared, mode |-> ic.mode,
     rf |-> Reading(f, sig0),
     f_wo_irrad |-> Reading(f, sig1),
     non_ar_isotopes |->
        [k40 |-> Reading(k40, sig1), ca39 |-> Reading(ic.ca39, sig1),
         k38 |-> Reading(ic.k38, sig1), ca38 |-> Reading(ic.ca38, sig1),
         k37 |-> Reading(ic.k37, sig1), ca37 |-> Reading(ic.ca37, sig1),
         ca36 |-> Reading(ic.ca36, sig1), cl36 |-> Reading(atm.cl36, sig1)],
     computed |->
        [rad40 |-> Reading(rad40, sig1), rad40_percent |-> Reading(rp, sig1),
         k39 |-> Reading(ic.k39, sig1), atm40 |-> Reading(atm40, sig1)],
     interference_corrected |->
        [Ar40 |-> Bind(USub(a40, k40), LAMBDA d : Reading(d, sig1)),
         Ar39 |-> Reading(ic.k39, sig1),
         Ar38 |-> Bind(IsoU(iso, "a38"), LAMBDA a38 : Reading(a38, sig1)),
         Ar37 |-> Bind(IsoU(iso, "a37"), LAMBDA a37 : Reading(a37, sig1)),
         Ar36 |-> Reading(atm.atm36, sig1)]]

\* calculate_F after the two corrections have returned
RadiogenicF(iso, pr, c, ic, atm) ==
    Bind(IsoU(iso, "a40"), LAMBDA a40 :
    Bind(UMul(atm.atm36, UConst(c.atm4036)), LAMBDA atm40 :
    Bind(UMul(ic.k39, PrGet(pr, "k4039", 1)), LAMBDA k40 :
    Bind(USub(a40, atm40), LAMBDA t :
    Bind(USub(t, k40), LAMBDA rad40 :
    Bind(FRatio(rad40, ic.k39), LAMBDA f :
    Bind(Rad40Percent(rad40, a40), LAMBDA rp :
    Bind(SigOf(iso, pr), LAMBDA sig0 :
    Bind(ClearErrors(pr), LAMBDA cleared :
    Bind(SigOf(iso, cleared), LAMBDA sig1 :
        FResults(iso, pr, ic, atm, a40, atm40, k40, rad40, f, rp,
                 sig0, cleared, sig1)))))))))))

\* calculate_F(isotopes, decay_time, interferences, arar_constants, fixed_k3739):
\* m is the caller's mapping (the empty mapping when None is passed); stage names
\* the call that raised
CalculateF(iso, decay_time, m, c, fixed) ==
    Bind(CopyInterferences(m), LAMBDA pr :
    Bind(InterferenceCorrections(iso, pr, c, fixed), LAMBDA ic :
        IF ic.raised # "none"
        THEN [raised |-> ic.raised, stage |-> "interference_corrections", pr |-> pr]
        ELSE Bind(CalculateAtmospheric(IsoU(iso, "a38"), IsoU(iso, "a36"),
                                       ic.k38, ic.ca38, ic.ca36, decay_time, pr, c),
                  LAMBDA atm :
                  IF atm.raised # "none"
                  THEN [raised |-> atm.raised, stage |-> "calculate_atmospheric",
                        pr |-> pr]
                  ELSE RadiogenicF(iso, pr, c, ic, atm))))

---------------------------------------------------------------------------
(* Inputs of the correction pipeline *)

Sig(n, s) == [n |-> n, s |-> s]

\* isotope signal vectors (40Ar, 39Ar, 38Ar, 37Ar, 36Ar), each with std_dev 1
IsoInputs ==
    { [v \in IsoVars |->
          CASE v = "a40" -> Sig(a40, 1)
            [] v = "a39" -> Sig(a39, 1)
            [] v = "a38" -> Sig(1, 1)
            [] v = "a37" -> Sig(a37, 1)
            [] v = "a36" -> Sig(1, 1)] :
      a40 \in {0, 6}, a39 \in 0 .. MaxSig, a37 \in -1 .. MaxSig }

\* every production ratio present and zero
AllZeroRatios == [k \in PRKeys |-> Sig(0, 1)]

RatioInputs ==
    {EmptyMap, AllZeroRatios, [k \in {"k3739"} |-> Sig(1, 1)]}
    \cup { [k \in PRKeys |->
              CASE k = "ca3937" -> Sig(c, 1)
                [] k = "k3739" -> Sig(kk, 1)
                [] OTHER -> Sig(1, 1)] :
           <<c, kk>> \in {<<1, 1>>, <<2, 1>>, <<2, 0>>, <<0, 1>>} }

DefaultConstants == [kind |-> "default"]

\* an injected constants set; lambda_k is in units of ln 2
Supplied(mode, fx, allow, lk, scalar) ==
    [kind |-> "supplied", k3739_mode |-> mode, fixed_k3739 |-> fx,
     allow_negative_ca_correction |-> allow, age_scalar |-> scalar,
     lambda_k |-> lk, atm4036 |-> R(3), atm3836 |-> <<1, 2>>, lambda_Cl36 |-> R(1)]

FConstants ==
    {DefaultConstants,
     Supplied("normal", R(1), FALSE, 1, 1), Supplied("normal", R(1), TRUE, 1, 1),
     Supplied("Normal", R(1), FALSE, 1, 1), Supplied("fixed", R(1), FALSE, 1, 1),
     Supplied("fixed", R(1), TRUE, 1, 1), Supplied("fixed", R(0), FALSE, 1, 1)}

FixedArgs == {FixedFalse, FixedNum(R(0)), FixedNum(R(2)), FixedNum(<<-1, 2>>)}

InitF ==
    /\ args \in [fam : {"F"}, iso : IsoInputs, decay_time : {1}, consts : FConstants,
                 fixed : FixedArgs, pr0 : RatioInputs, passNone : {FALSE}]
               \cup [fam : {"F"}, iso : IsoInputs, decay_time : {1}, consts : FConstants,
                     fixed : FixedArgs, pr0 : {EmptyMap}, passNone : {TRUE}]
    /\ interferences = args.pr0
    /\ ret = [op |-> "none"]

\* calculate_F(isotopes, decay_time, interferences, arar_constants, fixed_k3739)
\* on the caller's shared mapping (interferences=None when passNone)
CallCalculateF ==
    /\ args.fam = "F"
    /\ ret.op \in {"none", "calculate_F"}
    /\ \E out \in {CalculateF(args.iso, args.decay_time,
                              IF args.passNone THEN EmptyMap ELSE interferences,
                              args.consts, args.fixed)} :
           /\ ret' = [op |-> "calculate_F", out |-> out]
           /\ interferences' = CallerView(interferences, out.pr)
    /\ UNCHANGED args

\* the bundle of interference_corrections as the caller reads it
Bundle(ic, sig) ==
    [k37 |-> Reading(ic.k37, sig), k38 |-> Reading(ic.k38, sig),
     k39 |-> Reading(ic.k39, sig), ca36 |-> Reading(ic.ca36, sig),
     ca37 |-> Reading(ic.ca37, sig), ca38 |-> Reading(ic.ca38, sig),
     ca39 |-> Reading(ic.ca39, sig), raw_ca37 |-> Reading(ic.raw_ca37, sig)]

\* interference_corrections(a40, a39, a38, a37, a36, production_ratios,
\* arar_constants, fixed_k3739) called directly
\* ratio is the value the fixed branch hands to apply_fixed_k3739
CallInterferenceCorrections ==
    /\ args.fam = "F"
    /\ ret.op = "none"
    /\ \E pr \in {IF args.passNone THEN EmptyMap ELSE SameObjects(interferences)} :
       \E ic \in {InterferenceCorrections(args.iso, pr, args.consts, args.fixed)} :
       \E sig \in {SigOf(args.iso, pr)} :
           ret' = IF ic.raised # "none"
                  THEN [op |-> "interference_corrections", raised |-> ic.raised]
                  ELSE [op |-> "interference_corrections", raised |-> "none",
                        mode |-> ic.mode,
                        ratio |-> IF ic.mode = "fixed"
                                  THEN FixedRatio(args.consts, args.fixed)
                                  ELSE R(0),
                        bundle |-> Bundle(ic, sig)]
    /\ UNCHANGED <<args, interferences>>

\* the loop of the iterative branch has converged: one more pass of its body
\* changes no nominal value
Converged(iso, pr) ==
    Bind(SolveIterative(iso, pr), LAMBDA s :
    Bind(StepK3739(IsoU(iso, "a37"), IsoU(iso, "a39"), PrGet(pr, "ca3937", 0),
                   PrGet(pr, "k3739", 0), s), LAMBDA t :
        \A q \in {"ca37", "ca39", "k37", "k39"} : t[q].n = s[q].n))

\* the caller's ratio of two nominal values of a returned bundle
NominalRatio(num, den) == RDiv(num.n, den.n)

\* the iterative mode, then the fixed-ratio mode with the override set to a ratio
\* read from the iterative result: which = "k37/k39" or "ca37/k39"
CallBothModes(which) ==
    /\ args.fam = "F"
    /\ ret.op = "none"
    /\ ~args.passNone
    /\ HasAttr(args.consts, "k3739_mode")
    /\ UseIterative(args.consts, FixedFalse)
    /\ \E pr \in {SameObjects(interferences)} :
       \E sig \in {SigOf(args.iso, pr)} :
       \E it \in {InterferenceCorrections(args.iso, pr, args.consts, FixedFalse)} :
           /\ ~RIsZero(it.k39.n)
           /\ \E x \in {NominalRatio(IF which = "k37/k39" THEN it.k37 ELSE it.ca37,
                                     it.k39)} :
              \E fx \in {InterferenceCorrections(args.iso, pr, args.consts, FixedNum(x))} :
                  ret' = [op |-> "both_modes", which |-> which, x |-> x,
                          converged |-> Converged(args.iso, pr),
                          iterative |-> Bundle(it, sig),
                          raised |-> fx.raised,
                          fixed |-> IF fx.raised = "none"
                                    THEN [mode |-> fx.mode, bundle |-> Bundle(fx, sig)]
                                    ELSE [mode |-> "fixed"]]
    /\ UNCHANGED <<args, interferences>>

NextF ==
    \/ CallCalculateF
    \/ CallInterferenceCorrections
    \/ \E which \in {"k37/k39", "ca37/k39"} : CallBothModes(which)

SpecF == InitF /\ [][NextF]_vars

---------------------------------------------------------------------------
(* exp and log on the grid of powers of two *)

RECURSIVE IntPow2(_)
IntPow2(k) == IF k = 0 THEN 1 ELSE 2 * IntPow2(k - 1)

\* exp(k ln 2) for an integer k
Pow2(k) == IF k >= 0 THEN <<IntPow2(k), 1>> ELSE <<1, IntPow2(-k)>>

RECURSIVE IntLog2(_)
\* k when n = 2^k, and -1 when the positive integer n is no power of two
IntLog2(n) ==
    IF n = 1 THEN 0
    ELSE IF n % 2 = 1 THEN -1
    ELSE LET k == IntLog2(n \div 2) IN IF k = -1 THEN -1 ELSE k + 1

\* log(r) / ln 2 for r > 0: exact says that r is a power of two and k is its
\* exponent; any other r has a logarithm outside the grid
Log2(r) ==
    IF r[2] = 1 THEN [exact |-> IntLog2(r[1]) # -1, k |-> IntLog2(r[1])]
    ELSE IF r[1] = 1 THEN [exact |-> IntLog2(r[2]) # -1, k |-> -IntLog2(r[2])]
    ELSE [exact |-> FALSE, k |-> 0]

---------------------------------------------------------------------------
(* calculate_flux *)

\* ages range over 0 .. MaxAge and F over -1 .. MaxF
MaxAge == 3
MaxF == 3

\* FluxValue as it would be if the 1 were not subtracted from the exponential
FluxValueNoMinusOne(f, age, lk) ==
    Bind(Pow2(age.n * lk), LAMBDA e :
        [n |-> RDiv(e, R(f.n)),
         err |-> [f |-> RMul(RAbs(RDiv(e, R(f.n * f.n))), R(f.s)),
                  age |-> RMul(RAbs(RDiv(RMul(R(lk), e), R(f.n))), R(age.s))]])

\* j = (umath.exp(age * lambda_k.nominal_value) - 1) / f for f.n # 0: the nominal
\* value and the error components |dj/df| * std(f) and |dj/dage| * std(age), the
\* second in units of ln 2
FluxValue(f, age, lk) ==
    Bind(Pow2(age.n * lk), LAMBDA e :
    Bind(RSub(e, R(1)), LAMBDA num :
        [n |-> RDiv(num, R(f.n)),
         err |-> [f |-> RMul(RAbs(RDiv(num, R(f.n * f.n))), R(f.s)),
                  age |-> RMul(RAbs(RDiv(RMul(R(lk), e), R(f.n))), R(age.s))]]))

\* calculate_flux(f, age, arar_constants): f and age are (nominal, std) pairs or
\* uncertain quantities
CalculateFlux(f, age, c) ==
    IF ~HasAttr(c, "lambda_k") THEN [raised |-> "AttributeError"]
    ELSE IF f.n = 0
    THEN [raised |-> "none", j |-> [n |-> R(1), err |-> [f |-> R(0), age |-> R(0)]]]
    ELSE [raised |-> "none", j |-> FluxValue(f, age, c.lambda_k)]

---------------------------------------------------------------------------
(* age_equation *)

\* an argument j or f: kind is "tuple", "str" (a number as text), "ufloat",
\* "badstr" (text that is no number) or "none" (not a number at all); sz says
\* that its std_dev is 0
Numeric(x) == x.kind \in {"tuple", "str", "ufloat"}

\* the value once every guard has passed: log(1 + j f) / lambda_k / scalar and its
\* derivatives, the ln 2 of log and of lambda_k cancelling in the nominal value
AgeValue(j, f, include_decay_error, lk, scalar, arg) ==
    Bind(Log2(arg), LAMBDA lg :
    Bind(RMul(arg, R(lk * scalar)), LAMBDA den :
    Bind([dj |-> RDiv(f.n, den), df |-> RDiv(j.n, den),
          dlk |-> IF include_decay_error THEN RDiv(R(-lg.k), R(lk * lk * scalar))
                  ELSE R(0)], LAMBDA d :
        [raised |-> "none", fallback |-> FALSE, exact |-> lg.exact,
         n |-> RDiv(R(lg.k), R(lk * scalar)),
         dj |-> d.dj, df |-> d.df, dlk |-> d.dlk,
         stdzero |-> /\ (RIsZero(d.dj) \/ j.sz)
                     /\ (RIsZero(d.df) \/ f.sz)
                     /\ RIsZero(d.dlk)])))

\* ufloat(0, 0)
ZeroAge == [raised |-> "none", fallback |-> TRUE, exact |-> TRUE, n |-> R(0),
            dj |-> R(0), df |-> R(0), dlk |-> R(0), stdzero |-> TRUE]

\* age_equation(j, f, include_decay_error, arar_constants)
AgeEquation(j, f, include_decay_error, c) ==
    IF j.kind = "badstr" \/ f.kind = "badstr" THEN [raised |-> "ValueError"]
    ELSE IF ~HasAttr(c, "age_scalar") THEN [raised |-> "AttributeError"]
    ELSE IF c.lambda_k = 0 THEN [raised |-> "ZeroDivisionError"]
    ELSE IF ~Numeric(j) \/ ~Numeric(f) THEN ZeroAge
    ELSE Bind(RAdd(R(1), RMul(j.n, f.n)), LAMBDA arg :
         IF RLe(arg, R(0)) THEN ZeroAge
         ELSE IF c.age_scalar = 0 THEN [raised |-> "ZeroDivisionError"]
         ELSE AgeValue(j, f, include_decay_error, c.lambda_k, c.age_scalar, arg))

---------------------------------------------------------------------------
(* calculate_decay_factor *)

MaxDc == 2
MaxSegments == 2

RECURSIVE SumPT(_)
\* a = sum([pi * ti for pi, ti, _ in segments])
SumPT(segs) ==
    IF segs = <<>> THEN 0 ELSE Head(segs)[1] * Head(segs)[2] + SumPT(Tail(segs))

\* pi * ((1 - exp(-dc * ti)) / (dc * exp(dc * dti))) for dc # 0, in units of 1/ln 2
DecayTerm(dc, seg) ==
    RMul(R(seg[1]),
         RDiv(RSub(R(1), Pow2(-(dc * seg[2]))), RMul(R(dc), Pow2(dc * seg[3]))))

RECURSIVE SumDecayTerms(_, _)
SumDecayTerms(dc, segs) ==
    IF segs = <<>> THEN R(0)
    ELSE Bind(SumDecayTerms(dc, Tail(segs)), LAMBDA rest :
              RAdd(DecayTerm(dc, Head(segs)), rest))

\* calculate_decay_factor(dc, segments): dc in units of ln 2; the quotient a / b
\* is coef * ln 2 (unit "ln2"), the fallback is the plain number 1.0 (unit "1")
CalculateDecayFactor(dc, segs) ==
    IF dc = 0 /\ segs # <<>> THEN [raised |-> "ZeroDivisionError"]
    ELSE Bind(SumDecayTerms(dc, segs), LAMBDA b :
         IF RIsZero(b) THEN [raised |-> "none", fallback |-> TRUE,
                             coef |-> R(1), unit |-> "1"]
         ELSE [raised |-> "none", fallback |-> FALSE,
               coef |-> RDiv(R(SumPT(segs)), b), unit |-> "ln2"])

---------------------------------------------------------------------------
(* calculate_plateau_age; Plateau.find_plateaus and calculate_weighted_mean are
   collaborators described by the specification *)

MaxSteps == 3
MaxStepAge == 4

\* the shortest run of steps that counts as a plateau
MinSteps == 2

RECURSIVE SumSeq(_)
SumSeq(q) == IF q = <<>> THEN 0 ELSE Head(q) + SumSeq(Tail(q))

\* ages i and j overlap within 2 combined standard errors
Overlap(ages, errors, i, j) ==
    (ages[i] - ages[j]) * (ages[i] - ages[j])
        <= 4 * (errors[i] * errors[i] + errors[j] * errors[j])

\* the half-open range <<start, end>> (0-based) qualifies as a plateau
Qualifies(ages, errors, k39, start, end) ==
    /\ end - start >= MinSteps
    /\ \A i, j \in start + 1 .. end : Overlap(ages, errors, i, j)
    /\ 2 * SumSeq(SubSeq(k39, start + 1, end)) >= SumSeq(k39)

\* find_plateaus(method): the longest qualifying range, the earliest among equals,
\* or the empty tuple when there is none
FindPlateaus(ages, errors, k39) ==
    LET n == Len(ages)
        ranges == { r \in (0 .. n) \X (0 .. n) :
                      Qualifies(ages, errors, k39, r[1], r[2]) }
    IN  IF ranges = {} THEN <<>>
        ELSE CHOOSE r \in ranges :
               \A q \in ranges : \/ q[2] - q[1] < r[2] - r[1]
                                 \/ /\ q[2] - q[1] = r[2] - r[1]
                                    /\ r[1] <= q[1]

RECURSIVE SumInvVar(_)
SumInvVar(errors) ==
    IF errors = <<>> THEN R(0)
    ELSE RAdd(<<1, Head(errors) * Head(errors)>>, SumInvVar(Tail(errors)))

RECURSIVE SumWeighted(_, _)
SumWeighted(ages, errors) ==
    IF ages = <<>> THEN R(0)
    ELSE RAdd(RNorm(Head(ages), Head(errors) * Head(errors)),
              SumWeighted(Tail(ages), Tail(errors)))

\* calculate_weighted_mean(ages, errors): the inverse-variance weighted mean and
\* the square of its error
CalculateWeightedMean(ages, errors) ==
    [wm |-> RDiv(SumWeighted(ages, errors), SumInvVar(errors)),
     we2 |-> RDiv(R(1), SumInvVar(errors))]

\* calculate_plateau_age(ages, errors, k39, kind)
CalculatePlateauAge(ages, errors, k39, kind) ==
    Bind(FindPlateaus(ages, errors, k39), LAMBDA pidx :
        IF pidx = <<>> THEN [raised |-> "none", result |-> "None", pidx |-> pidx]
        ELSE IF kind = "vol_fraction"
        THEN [raised |-> "TypeError", pidx |-> pidx]
        ELSE Bind(CalculateWeightedMean(SubSeq(ages, pidx[1] + 1, pidx[2]),
                                        SubSeq(errors, pidx[1] + 1, pidx[2])),
                  LAMBDA m : [raised |-> "none", result |-> "tuple", pidx |-> pidx,
                              wm |-> m.wm, we2 |-> m.we2]))

---------------------------------------------------------------------------
(* calls of calculate_flux and age_equation *)

\* F and the monitor age, each a (nominal, std) pair or an uncertain quantity
FluxInputs == [form : {"tuple", "ufloat"}, n : -1 .. MaxF, s : {0, 1}]
AgeInputs == [form : {"tuple", "ufloat"}, n : 0 .. MaxAge, s : {0, 1}]

FluxConstants ==
    {DefaultConstants}
        \cup { Supplied("normal", R(0), FALSE, lk, scalar) :
                 lk \in 0 .. 2, scalar \in 1 .. 2 }

InitFlux ==
    /\ args \in [fam : {"flux"}, f : FluxInputs, age : AgeInputs,
                 consts : FluxConstants]
    /\ interferences = EmptyMap
    /\ ret = [op |-> "none"]

CallCalculateFlux ==
    /\ args.fam = "flux"
    /\ ret.op = "none"
    /\ \E out \in {CalculateFlux(args.f, args.age, args.consts)} :
           ret' = [op |-> "calculate_flux", out |-> out]
    /\ UNCHANGED <<args, interferences>>

\* the (nominal, std) pair calculate_flux returned, as age_equation receives it
FluxResultArg(j) ==
    [kind |-> "tuple", n |-> j.n, sz |-> RIsZero(j.err.f) /\ RIsZero(j.err.age)]

\* F as age_equation receives it
FluxFArg(f) ==
    [kind |-> f.form, n |-> R(f.n), sz |-> f.s = 0]

\* age_equation(calculate_flux(F, age, constants), F, arar_constants=constants)
CallAgeEquationOnFlux ==
    /\ args.fam = "flux"
    /\ ret.op = "calculate_flux"
    /\ ret.out.raised = "none"
    /\ \E out \in {AgeEquation(FluxResultArg(ret.out.j), FluxFArg(args.f),
                               FALSE, args.consts)} :
           ret' = [op |-> "round_trip", j |-> ret.out.j, out |-> out]
    /\ UNCHANGED <<args, interferences>>

NextFlux ==
    \/ CallCalculateFlux
    \/ CallAgeEquationOnFlux

SpecFlux == InitFlux /\ [][NextFlux]_vars

\* J and F of a direct call of age_equation
JFValues == {R(-1), R(0), R(1), R(3)}

JFInputs ==
    [kind : {"tuple", "str", "ufloat"}, n : JFValues, sz : {FALSE}]
        \cup [kind : {"tuple"}, n : {R(1)}, sz : {TRUE}]
        \cup [kind : {"badstr", "none"}, n : {R(0)}, sz : {TRUE}]

AgeConstants ==
    {DefaultConstants}
        \cup { Supplied("normal", R(0), FALSE, lk, scalar) :
                 lk \in 0 .. 2, scalar \in 0 .. 2 }

\* 1 + j f has a logarithm on the grid, or none at all
OnGrid(j, f) ==
    \/ ~Numeric(j)
    \/ ~Numeric(f)
    \/ RLe(RAdd(R(1), RMul(j.n, f.n)), R(0))
    \/ Log2(RAdd(R(1), RMul(j.n, f.n))).exact

InitAge ==
    /\ args \in { a \in [fam : {"age"}, j : JFInputs, f : JFInputs,
                        include_decay_error : BOOLEAN, consts : AgeConstants] :
                    OnGrid(a.j, a.f) }
    /\ interferences = EmptyMap
    /\ ret = [op |-> "none"]

CallAgeEquation ==
    /\ args.fam = "age"
    /\ ret.op = "none"
    /\ \E out \in {AgeEquation(args.j, args.f, args.include_decay_error,
                               args.consts)} :
           ret' = [op |-> "age_equation", out |-> out]
    /\ UNCHANGED <<args, interferences>>

NextAge == CallAgeEquation

SpecAge == InitAge /\ [][NextAge]_vars

---------------------------------------------------------------------------
(* calls of calculate_decay_factor *)

\* a segment is (power, time since the segment, duration)
Segments == (0 .. 2) \X (0 .. 2) \X (0 .. 1)

RECURSIVE SeqsUpTo(_, _)
SeqsUpTo(S, n) ==
    IF n = 0 THEN {<<>>}
    ELSE LET shorter == SeqsUpTo(S, n - 1)
         IN  shorter \cup { Append(q, x) : q \in shorter, x \in S }

InitDecay ==
    /\ args \in [fam : {"decay"}, dc : 0 .. MaxDc,
                 segments : SeqsUpTo(Segments, MaxSegments)]
    /\ interferences = EmptyMap
    /\ ret = [op |-> "none"]

CallCalculateDecayFactor ==
    /\ args.fam = "decay"
    /\ ret.op = "none"
    /\ \E out \in {CalculateDecayFactor(args.dc, args.segments)} :
           ret' = [op |-> "calculate_decay_factor", out |-> out]
    /\ UNCHANGED <<args, interferences>>

NextDecay == CallCalculateDecayFactor

SpecDecay == InitDecay /\ [][NextDecay]_vars

---------------------------------------------------------------------------
(* calls of calculate_plateau_age *)

StepSeries ==
    UNION { [ages : [1 .. n -> 0 .. MaxStepAge], errors : [1 .. n -> {1}],
             k39 : [1 .. n -> 1 .. 2]] : n \in 1 .. MaxSteps }

InitPlateau ==
    /\ args \in [fam : {"plateau"}, steps : StepSeries,
                 kind : {"inverse_variance", "vol_fraction"}]
    /\ interferences = EmptyMap
    /\ ret = [op |-> "none"]

CallCalculatePlateauAge ==
    /\ args.fam = "plateau"
    /\ ret.op = "none"
    /\ \E out \in {CalculatePlateauAge(args.steps.ages, args.steps.errors,
                                       args.steps.k39, args.kind)} :
           ret' = [op |-> "calculate_plateau_age", out |-> out]
    /\ UNCHANGED <<args, interferences>>

NextPlateau == CallCalculatePlateauAge

SpecPlateau == InitPlateau /\ [][NextPlateau]_vars

---------------------------------------------------------------------------
(* reading an attribute of a constructed ArArConstants *)

\* the values of lambda_b_v, lambda_e_v, atm4036_v and atm4038_v range over
\* 1 .. MaxConst
MaxConst == 3

\* the attributes the class body defines directly
PlainAttributes ==
    {"abundance_40K", "mK", "mO", "lambda_b_v", "lambda_e_v", "atm4036_v",
     "atm4038_v"}

\* the properties of the class
Properties ==
    {"atm3836", "lambda_Cl36", "lambda_Ar37", "lambda_Ar39", "atm4036",
     "lambda_k", "lambda_e", "lambda_b"}

\* the options the calculation functions read from their constants set
ConfigAttributes ==
    {"k3739_mode", "fixed_k3739", "allow_negative_ca_correction", "age_scalar"}

\* getattr(c, a) on an instance c of ArArConstants: lambda_k reads self.self and
\* atm3836 reads self.atm4038, neither of which the class defines
ReadAttribute(c, a) ==
    CASE a \in {"lambda_k", "atm3836"} -> [raised |-> "AttributeError"]
      [] a \in ConfigAttributes -> [raised |-> "AttributeError"]
      [] a = "lambda_b" -> [raised |-> "none", value |-> R(c.lambda_b_v)]
      [] a = "lambda_e" -> [raised |-> "none", value |-> R(c.lambda_e_v)]
      [] a = "atm4036" -> [raised |-> "none", value |-> R(c.atm4036_v)]
      [] a \in {"lambda_b_v", "lambda_e_v", "atm4036_v", "atm4038_v"} ->
            [raised |-> "none", value |-> R(c[a])]
      [] OTHER -> [raised |-> "none", value |-> R(1)]

ConstantsInstances ==
    [kind : {"ArArConstants"}, lambda_b_v : 1 .. MaxConst, lambda_e_v : 1 .. MaxConst,
     atm4036_v : 1 .. MaxConst, atm4038_v : 1 .. MaxConst]

InitConstants ==
    /\ args \in [fam : {"constants"}, c : ConstantsInstances,
                 attr : PlainAttributes \cup Properties \cup ConfigAttributes]
    /\ interferences = EmptyMap
    /\ ret = [op |-> "none"]

CallReadAttribute ==
    /\ args.fam = "constants"
    /\ ret.op = "none"
    /\ \E out \in {ReadAttribute(args.c, args.attr)} :
           ret' = [op |-> "getattr", out |-> out]
    /\ UNCHANGED <<args, interferences>>

NextConstants == CallReadAttribute

SpecConstants == InitConstants /\ [][NextConstants]_vars

---------------------------------------------------------------------------
(* calculate_isochron *)

MaxAnalyses == 2
MaxAr40 == 2

\* an analysis: the nominal values of its interference-corrected Ar39, Ar36, Ar40
Analyses == [Ar39 : 0 .. 1, Ar36 : 0 .. 1, Ar40 : 0 .. MaxAr40]

\* the intercept the external regressor may report
Intercepts == {R(-1), R(0), R(1)}

\* r = xint ** -1, or 0 on ZeroDivisionError
Reciprocal(xint) == IF RIsZero(xint) THEN R(0) ELSE RDiv(R(1), xint)

\* calculate_isochron(analyses): ans holds the analyses, xint the intercept of
\* the regression, j and c the flux and the constants set of the first analysis.
\* a39 / a40 raises ZeroDivisionError when an Ar40 is zero, and the handler is a
\* bare return
CalculateIsochron(ans, xint, j, c) ==
    IF \E i \in 1 .. Len(ans) : ans[i].Ar40 = 0
    THEN [raised |-> "none", result |-> "None"]
    ELSE Bind(Reciprocal(xint), LAMBDA r :
         Bind(IF RLt(R(0), r)
              THEN AgeEquation([kind |-> "tuple", n |-> R(j), sz |-> TRUE],
                               [kind |-> "ufloat", n |-> r, sz |-> FALSE], FALSE, c)
              ELSE ZeroAge, LAMBDA age :
             IF age.raised # "none" THEN [raised |-> age.raised]
             ELSE [raised |-> "none", result |-> "triple", r |-> r, age |-> age]))

IsochronConstants ==
    { Supplied("normal", R(0), FALSE, lk, scalar) : lk \in 1 .. 2, scalar \in 1 .. 2 }

InitIsochron ==
    /\ args \in [fam : {"isochron"}, analyses : SeqsUpTo(Analyses, MaxAnalyses) \ {<<>>},
                 j : {0, 1, 3}, consts : IsochronConstants]
    /\ interferences = EmptyMap
    /\ ret = [op |-> "none"]

CallCalculateIsochron ==
    /\ args.fam = "isochron"
    /\ ret.op = "none"
    /\ \E xint \in Intercepts :
       \E out \in {CalculateIsochron(args.analyses, xint, args.j, args.consts)} :
           ret' = [op |-> "calculate_isochron", xint |-> xint, out |-> out]
    /\ UNCHANGED <<args, interferences>>

NextIsochron == CallCalculateIsochron

SpecIsochron == InitIsochron /\ [][NextIsochron]_vars

---------------------------------------------------------------------------
(* the whole program *)

Init ==
    InitF \/ InitFlux \/ InitAge \/ InitDecay \/ InitPlateau \/ InitConstants
    \/ InitIsochron

Next ==
    NextF \/ NextFlux \/ NextAge \/ NextDecay \/ NextPlateau \/ NextConstants
    \/ NextIsochron

Spec == Init /\ [][Next]_vars

---------------------------------------------------------------------------
(* Properties of the correction pipeline, checked under SpecF *)

\* C1 as stated, on constants sets that select the iterative mode: with every
\* production ratio zero, interference_corrections
\* yields k37 = k38 = k39 = ca36 = ca37 = ca38 = ca39 = 0 and calculate_F returns
\* F = (a40 - atm4036 * a36) / a39.
C1_AsStated ==
    (args.fam = "F" /\ args.pr0 = AllZeroRatios /\ args.consts.kind = "supplied"
         /\ UseIterative(args.consts, args.fixed)) =>
        /\ ret.op = "interference_corrections" =>
              /\ ret.raised = "none"
              /\ \A q \in {"k37", "k38", "k39", "ca36", "ca37", "ca38", "ca39"} :
                     RIsZero(ret.bundle[q].n)
        /\ (ret.op = "calculate_F" /\ args.iso["a39"].n # 0) =>
              /\ ret.out.raised = "none"
              /\ ret.out.rf.n = RDiv(RSub(R(args.iso["a40"].n),
                                          RMul(args.consts.atm4036, R(args.iso["a36"].n))),
                                     R(args.iso["a39"].n))

\* C1 amended: with every production ratio zero, the iterative mode yields
\* k37 = k38 = ca36 = ca38 = ca39 = 0, k39 = a39 and ca37 = a37 (0 when a37 <= 0
\* and negative calcium corrections are not allowed), and calculate_F in that mode
\* returns F = (a40 - atm4036 * a36) / a39 whenever a39 is not zero.
C1_ZeroRatios ==
    (args.fam = "F" /\ args.pr0 = AllZeroRatios) =>
        /\ (ret.op = "interference_corrections" /\ ret.raised = "none"
                /\ ret.mode = "iterative") =>
              /\ \A q \in {"k37", "k38", "ca36", "ca38", "ca39"} :
                     RIsZero(ret.bundle[q].n)
              /\ ret.bundle.k39.n = R(args.iso["a39"].n)
              /\ ret.bundle.ca37.n =
                    IF args.iso["a37"].n <= 0
                       /\ ~args.consts.allow_negative_ca_correction
                    THEN R(0) ELSE R(args.iso["a37"].n)
        /\ (ret.op = "calculate_F" /\ ret.out.raised = "none"
                /\ ret.out.mode = "iterative" /\ args.iso["a39"].n # 0) =>
              /\ ret.out.rf.n = RDiv(RSub(R(args.iso["a40"].n),
                                          RMul(args.consts.atm4036, R(args.iso["a36"].n))),
                                     R(args.iso["a39"].n))
              /\ ret.out.f_wo_irrad.n = ret.out.rf.n
              /\ ret.out.computed.k39.n = R(args.iso["a39"].n)

\* calculate_F has returned F = (6 - 3 * 1) / 2 for zero ratios in iterative mode
C1_Witness ==
    /\ args.fam = "F" /\ args.pr0 = AllZeroRatios
    /\ ret.op = "calculate_F" /\ ret.out.raised = "none"
    /\ ret.out.mode = "iterative"
    /\ args.iso["a39"].n = 2 /\ args.iso["a40"].n = 6 /\ args.iso["a37"].n = 1
    /\ ret.out.rf.n = <<3, 2>>
    /\ ret.out.non_ar_isotopes.ca37.n = R(1)

\* C2: once the interference correction has computed k39, calculate_F does not
\* raise, and whenever that k39 is zero it returns F = (1.0, 0.0) both as F and as
\* F without irradiation error, together with the other three structures.
C2_ZeroK39 ==
    (args.fam = "F" /\ ret.op = "calculate_F") =>
        /\ ret.out.raised # "none" => ret.out.stage = "interference_corrections"
        /\ (ret.out.raised = "none" /\ RIsZero(ret.out.computed.k39.n)) =>
               /\ ret.out.rf = [n |-> R(1), err |-> NoError]
               /\ ret.out.f_wo_irrad = [n |-> R(1), err |-> NoError]
               /\ {"non_ar_isotopes", "computed", "interference_corrected"}
                      \subseteq DOMAIN ret.out

\* calculate_F has returned for signals with 39Ar present whose k39 is zero
C2_Witness ==
    /\ args.fam = "F" /\ ret.op = "calculate_F" /\ ret.out.raised = "none"
    /\ args.iso["a39"].n # 0
    /\ RIsZero(ret.out.computed.k39.n)
    /\ ret.out.rf = [n |-> R(1), err |-> NoError]

\* C4: the fixed-ratio mode called with the ratio k37/k39 of the converged
\* iterative solution returns the same (ca37, ca39, k37, k39) as the iterative
\* mode.
C4_ModesAgree ==
    (args.fam = "F" /\ ret.op = "both_modes" /\ ret.which = "k37/k39"
         /\ ret.converged) =>
        /\ ret.raised = "none"
        /\ \A q \in {"ca37", "ca39", "k37", "k39"} :
               ret.fixed.bundle[q].n = ret.iterative[q].n

\* C8: without allow_negative_ca_correction the returned ca37 is never negative
\* in either mode and a clamped ca37 is exactly (0, 0); every standard deviation
\* of the bundle is >= 0; with the flag set ca37 is returned unclamped.
C8_Clamp ==
    (args.fam = "F" /\ ret.op = "interference_corrections" /\ ret.raised = "none") =>
        /\ ~args.consts.allow_negative_ca_correction =>
              /\ RLe(R(0), ret.bundle.ca37.n)
              /\ RLe(ret.bundle.raw_ca37.n, R(0)) =>
                    ret.bundle.ca37 = [n |-> R(0), err |-> NoError]
              /\ RLt(R(0), ret.bundle.raw_ca37.n) =>
                    ret.bundle.ca37 = ret.bundle.raw_ca37
        /\ args.consts.allow_negative_ca_correction =>
              ret.bundle.ca37 = ret.bundle.raw_ca37
        /\ \A q \in {"k37", "k38", "k39", "ca36", "ca37", "ca38", "ca39"} :
               StdNonNeg(ret.bundle[q])

\* a negative calcium correction with an error has been clamped to (0, 0)
C8_Witness ==
    /\ args.fam = "F" /\ ret.op = "interference_corrections" /\ ret.raised = "none"
    /\ ~args.consts.allow_negative_ca_correction
    /\ RLt(ret.bundle.raw_ca37.n, R(0))
    /\ ~StdZero(ret.bundle.raw_ca37)
    /\ ret.bundle.ca37 = [n |-> R(0), err |-> NoError]

\* C9: after any call of calculate_F, and after any sequence of calls on one
\* mapping, every production ratio of the caller's mapping has the nominal value
\* and the std_dev it had before the first call.
C9_InputsUnchanged ==
    (args.fam = "F" /\ ret.op = "calculate_F") =>
        /\ DOMAIN interferences = DOMAIN args.pr0
        /\ \A k \in DOMAIN args.pr0 : /\ interferences[k].n = args.pr0[k].n
                                      /\ interferences[k].s = args.pr0[k].s

\* calculate_F has returned and zeroed the errors of its copies of ratios whose
\* errors in the caller's mapping are not zero
C9_Witness ==
    /\ args.fam = "F" /\ ret.op = "calculate_F" /\ ret.out.raised = "none"
    /\ DOMAIN interferences = PRKeys
    /\ \A k \in PRKeys : ret.out.pr[k].s = 0 /\ interferences[k].s = 1

\* C13: interference_corrections uses the iterative mode exactly when the
\* constants' k3739_mode is 'normal' in any letter case and the caller passed no
\* fixed_k3739; otherwise it uses the fixed-ratio mode, with the caller's value as
\* the ratio whenever one was passed, 0 included, and the constants' fixed_k3739
\* only when none was passed.
C13_ModeSelection ==
    (args.fam = "F" /\ ret.op = "interference_corrections" /\ ret.raised = "none") =>
        /\ (ret.mode = "iterative") <=>
              (Lower(args.consts.k3739_mode) = "normal" /\ args.fixed.isFalse)
        /\ ret.mode = "fixed" =>
              ret.ratio = IF args.fixed.isFalse THEN args.consts.fixed_k3739
                          ELSE args.fixed.v

\* C15: the bundle returned by interference_corrections is consistent in both
\* modes and for both settings of allow_negative_ca_correction: k39 + ca39 is the
\* measured 39Ar, k38 = k3839 * k39, and ca36, ca38 and ca39 are ca3637, ca3837
\* and ca3937 times the returned ca37.
C15_BundleConsistent ==
    (args.fam = "F" /\ ret.op = "interference_corrections" /\ ret.raised = "none") =>
        LET pr == IF args.passNone THEN EmptyMap ELSE args.pr0
            ratio(key) == IF key \in DOMAIN pr THEN R(pr[key].n) ELSE R(0)
            b == ret.bundle
        IN  /\ RAdd(b.k39.n, b.ca39.n) = R(args.iso["a39"].n)
            /\ b.k38.n = RMul(ratio("k3839"), b.k39.n)
            /\ b.ca36.n = RMul(ratio("ca3637"), b.ca37.n)
            /\ b.ca38.n = RMul(ratio("ca3837"), b.ca37.n)
            /\ b.ca39.n = RMul(ratio("ca3937"), b.ca37.n)

---------------------------------------------------------------------------
(* Properties of calculate_flux and age_equation, checked under SpecFlux and
   SpecAge *)

\* C3 as stated, on constants sets with a non-zero lambda_k: for every positive F
\* and positive age, age_equation(calculate_flux(F, age), F) has the nominal
\* value age, whatever the age_scalar.
C3_AsStated ==
    (args.fam = "flux" /\ ret.op = "round_trip" /\ args.f.n > 0 /\ args.age.n > 0
         /\ args.consts.lambda_k # 0) =>
        /\ ret.out.raised = "none"
        /\ ret.out.n = R(args.age.n)

\* C3 amended: for every positive F, every positive age and every constants set
\* with a non-zero lambda_k and a non-zero age_scalar,
\* age_equation(calculate_flux(F, age), F) has the nominal value age / age_scalar:
\* the original age exactly when age_scalar is 1.
C3_RoundTrip ==
    (args.fam = "flux" /\ ret.op = "round_trip" /\ args.f.n > 0 /\ args.age.n > 0
         /\ args.consts.lambda_k # 0 /\ args.consts.age_scalar # 0) =>
        /\ ret.out.raised = "none"
        /\ ~ret.out.fallback
        /\ ret.out.exact
        /\ ret.out.n = RNorm(args.age.n, args.consts.age_scalar)
        /\ (ret.out.n = R(args.age.n)) <=> (args.consts.age_scalar = 1)

\* the round trip of age 3 through F = 3 under age_scalar 2 has returned 3/2
C3_Witness ==
    /\ args.fam = "flux" /\ ret.op = "round_trip"
    /\ args.f.n = 3 /\ args.age.n = 3
    /\ args.consts.lambda_k = 2 /\ args.consts.age_scalar = 2
    /\ ret.out.raised = "none"
    /\ ret.out.n = <<3, 2>>

\* C5: on every injected constants set age_equation never raises; it returns
\* log(1 + J F) / lambda_k / age_scalar when J and F are numeric, 1 + J F > 0 and
\* neither divisor is zero, and the zero age (0, 0) in every other case.
C5_NeverRaises ==
    (args.fam = "age" /\ ret.op = "age_equation" /\ args.consts.kind = "supplied") =>
        /\ ret.out.raised = "none"
        /\ IF /\ Numeric(args.j) /\ Numeric(args.f)
              /\ RLt(R(0), RAdd(R(1), RMul(args.j.n, args.f.n)))
              /\ args.consts.lambda_k # 0 /\ args.consts.age_scalar # 0
           THEN /\ ~ret.out.fallback
                /\ ret.out.n =
                      RNorm(Log2(RAdd(R(1), RMul(args.j.n, args.f.n))).k,
                            args.consts.lambda_k * args.consts.age_scalar)
           ELSE /\ RIsZero(ret.out.n)
                /\ ret.out.stdzero

\* C6: calculate_flux never raises; it returns (1, 0) whenever F is zero and the
\* nominal value of (exp(age * lambda_k) - 1) / F otherwise.
C6_FluxFallback ==
    (args.fam = "flux" /\ ret.op = "calculate_flux") =>
        /\ ret.out.raised = "none"
        /\ args.f.n = 0 =>
              ret.out.j = [n |-> R(1), err |-> [f |-> R(0), age |-> R(0)]]
        /\ args.f.n # 0 =>
              ret.out.j.n = RDiv(RSub(Pow2(args.age.n * args.consts.lambda_k), R(1)),
                                 R(args.f.n))

---------------------------------------------------------------------------
(* Properties of calculate_decay_factor, checked under SpecDecay *)

\* C7: calculate_decay_factor never raises: for every decay constant, zero
\* included, and every sequence of segments it returns sum(p t) divided by the
\* denominator sum when that sum is not zero, and 1.0 otherwise.
C7_DecayFactor ==
    (args.fam = "decay" /\ ret.op = "calculate_decay_factor") =>
        /\ ret.out.raised = "none"
        /\ ret.out.fallback => (ret.out.coef = R(1) /\ ret.out.unit = "1")
        /\ ~ret.out.fallback =>
              ret.out.coef = RDiv(R(SumPT(args.segments)),
                                  SumDecayTerms(args.dc, args.segments))

---------------------------------------------------------------------------
(* Properties of calculate_plateau_age, checked under SpecPlateau *)

\* C10: calculate_plateau_age returns None without raising exactly when the
\* detector reports no range, and otherwise returns the weighted mean, its error
\* and the detector's range, the mean computed from ages[start:end] alone.
C10_PlateauResult ==
    (args.fam = "plateau" /\ ret.op = "calculate_plateau_age") =>
        \A pidx \in {FindPlateaus(args.steps.ages, args.steps.errors,
                                  args.steps.k39)} :
            /\ ret.out.raised = "none"
            /\ (ret.out.result = "None") <=> (pidx = <<>>)
            /\ pidx # <<>> =>
                  /\ ret.out.result = "tuple"
                  /\ ret.out.pidx = pidx
                  /\ args.kind # "vol_fraction" =>
                        ret.out.wm =
                           CalculateWeightedMean(
                               SubSeq(args.steps.ages, pidx[1] + 1, pidx[2]),
                               SubSeq(args.steps.errors, pidx[1] + 1, pidx[2])).wm

\* C11: for every detected range calculate_plateau_age returns a mean under
\* both kinds: under 'vol_fraction' the mean of the plateau ages weighted by
\* k39[start:end], under any other kind their inverse-variance weighted mean.
C11_PlateauMean ==
    (args.fam = "plateau" /\ ret.op = "calculate_plateau_age"
         /\ ret.out.pidx # <<>>) =>
        LET lo == ret.out.pidx[1] + 1
            hi == ret.out.pidx[2]
            ages == args.steps.ages
            k39 == args.steps.k39
            wsum[i \in lo - 1 .. hi] ==
                IF i < lo THEN 0 ELSE wsum[i - 1] + k39[i] * ages[i]
            ksum[i \in lo - 1 .. hi] ==
                IF i < lo THEN 0 ELSE ksum[i - 1] + k39[i]
        IN  /\ ret.out.raised = "none"
            /\ ret.out.result = "tuple"
            /\ ret.out.wm =
                  IF args.kind = "vol_fraction"
                  THEN RNorm(wsum[hi], ksum[hi])
                  ELSE CalculateWeightedMean(SubSeq(ages, lo, hi),
                                             SubSeq(args.steps.errors, lo, hi)).wm

---------------------------------------------------------------------------
(* Properties of the constants provider, checked under SpecConstants *)

\* C12: every attribute of a constructed ArArConstants can be read without an
\* error: lambda_k is lambda_b + lambda_e, atm3836 is atm4036 / atm4038, and
\* k3739_mode, fixed_k3739, allow_negative_ca_correction and age_scalar are
\* defined.
C12_ConstantsReadable ==
    (args.fam = "constants" /\ ret.op = "getattr") =>
        /\ ret.out.raised = "none"
        /\ args.attr = "lambda_k" =>
              ret.out.value = RAdd(R(args.c.lambda_b_v), R(args.c.lambda_e_v))
        /\ args.attr = "atm3836" =>
              ret.out.value = RDiv(R(args.c.atm4036_v), R(args.c.atm4038_v))

---------------------------------------------------------------------------
(* Properties of calculate_isochron, checked under SpecIsochron *)

\* C14: calculate_isochron never raises and always returns the (age, regressor,
\* data) triple; the age is (0, 0) when forming the ratios divides by zero, when
\* the intercept is zero and when its reciprocal is not positive, and for a
\* positive reciprocal it is age_equation of the first analysis's J, taken with
\* zero uncertainty, and the reciprocal.
C14_IsochronDegenerate ==
    (args.fam = "isochron" /\ ret.op = "calculate_isochron") =>
        /\ ret.out.raised = "none"
        /\ ret.out.result = "triple"
        /\ IF \/ \E i \in 1 .. Len(args.analyses) : args.analyses[i].Ar40 = 0
              \/ RLe(Reciprocal(ret.xint), R(0))
           THEN RIsZero(ret.out.age.n) /\ ret.out.age.stdzero
           ELSE ret.out.age.n =
                   RNorm(Log2(RAdd(R(1), RMul(R(args.j), Reciprocal(ret.xint)))).k,
                         args.consts.lambda_k * args.consts.age_scalar)

============================================================================
